---------------------------- MODULE Spec2Model ----------------------------
(***************************************************************************)
(* tools/plotjuggler/juggle.py: resolve a route, segment, URL or file to a *)
(* list of logs, load the logs through a process pool, filter the          *)
(* messages, write them to a temporary .rlog file and launch PlotJuggler   *)
(* on that file.                                                           *)
(*                                                                         *)
(* Python's None is the empty tuple and a present value x is <<x>>.        *)
(***************************************************************************)
EXTENDS Integers, Sequences, FiniteSets, TLC

\* Largest number of segments a route (or a cabana log list) has.
MaxLogs == 2
\* Largest segment_count given on the command line.
MaxCount == 2

None == <<>>
Some(x) == <<x>>
Opt(S) == {None} \cup {Some(x) : x \in S}

\* Python truthiness of an optional integer: None and 0 are falsy.
Truthy(o) == o # None /\ o[1] # 0

Min(a, b) == IF a < b THEN a ELSE b

-----------------------------------------------------------------------------
(* Names given on the command line.  A name is described by what the code  *)
(* asks of it: the substring test of line 61, the prefix and file tests of *)
(* line 65 and the two regular expressions of lines 23 and 26.             *)

Name(text, cabana, web, isfile, query, shape, seg, padded) ==
  [text |-> text, cabana |-> cabana, web |-> web, isfile |-> isfile,
   query |-> query, shape |-> shape, seg |-> seg, padded |-> padded]

DEMO_ROUTE == Name("4cf7a6ad03080c90|2021-09-29--13-46-36", FALSE, FALSE, FALSE, FALSE, "route", 0, FALSE)

SegNums == 0..MaxLogs

Names ==
  { Name("https://my.comma.ai/cabana/?route=R&sig=S&exp=E", TRUE, TRUE, FALSE, TRUE, "other", 0, FALSE),
    Name("/data/cabana/seg.rlog", TRUE, FALSE, TRUE, FALSE, "other", 0, FALSE),
    Name("https://host/seg.bz2", FALSE, TRUE, FALSE, FALSE, "other", 0, FALSE),
    Name("/data/seg.rlog", FALSE, FALSE, TRUE, FALSE, "other", 0, FALSE),
    Name("R", FALSE, FALSE, FALSE, FALSE, "route", 0, FALSE),
    Name(" R ", FALSE, FALSE, FALSE, FALSE, "route", 0, TRUE),
    Name("not a route", FALSE, FALSE, FALSE, FALSE, "other", 0, FALSE) }
  \cup { Name("R--n", FALSE, FALSE, FALSE, FALSE, "segment", n, FALSE) : n \in SegNums }

\* str.strip(): surrounding whitespace is removed.
StripText(t) == IF t = " R " THEN "R" ELSE t
strip(name) == [name EXCEPT !.padded = FALSE, !.text = StripText(name.text)]

\* 'cabana' in name
HasCabana(name) == name.cabana
\* name.startswith("http://") or name.startswith("https://") or os.path.isfile(name)
IsUrlOrFile(name) == ~name.padded /\ (name.web \/ name.isfile)
\* re.fullmatch(SEGMENT_NAME_RE, name), re.fullmatch(ROUTE_NAME_RE, name)
MatchesSegment(name) == ~name.padded /\ name.shape = "segment"
MatchesRoute(name) == ~name.padded /\ name.shape = "route"

\* get_route_and_segment_num: (route_name, segment_num), or the exception.
get_route_and_segment_num(name) ==
  IF MatchesSegment(name)
    THEN [raised |-> FALSE, route_name |-> "R", segment_num |-> Some(name.seg)]
    ELSE IF MatchesRoute(name)
      THEN [raised |-> FALSE, route_name |-> name.text, segment_num |-> None]
      ELSE [raised |-> TRUE, route_name |-> "", segment_num |-> None]

-----------------------------------------------------------------------------
(* Logs and messages.                                                      *)

Log(kind, seg) == [kind |-> kind, seg |-> seg]
\* A None entry of a log list: the segment has no such log.
NoLog == Log("None", -1)
\* The URL or file given on the command line, used as the log itself.
ArgLog(name) == Log(name.text, -1)

\* The lists Route.log_paths(), Route.qlog_paths() and the log_urls API can return.
PathLists(kind) ==
  UNION { { [i \in 1..L |-> IF i \in present THEN Log(kind, i - 1) ELSE NoLog] :
              present \in SUBSET (1..L) } : L \in 0..MaxLogs }

\* Message types of the decoded logs this model reads.
LogContents ==
  { <<>>,
    <<"carState", "can", "carParams">>,
    <<"sendcan", "carState">> }

\* What RobustLogReader(path) does: ValueError (None) or the decoded messages.
ReadOutcomes == Opt(LogContents)

Messages(log, types) ==
  [k \in 1..Len(types) |-> [log |-> log, n |-> k, which |-> types[k]]]

\* load_segment(segment_name), given what the reader does with the file.
load_segment(segment_name, read) ==
  IF segment_name = NoLog
    THEN <<>>
    ELSE IF read = None THEN <<>> ELSE Messages(segment_name, read[1])

\* Python's s[lo:hi] for integer lo and hi.
PySlice(s, lo, hi) ==
  LET n == Len(s)
      norm(i) == IF i < 0 THEN (IF i + n < 0 THEN 0 ELSE i + n)
                          ELSE (IF i > n THEN n ELSE i)
      a == norm(lo)
      b == norm(hi)
  IN IF a < b THEN SubSeq(s, a + 1, b) ELSE <<>>

\* segment_end = segment_start + segment_count if segment_count else -1
SegmentEnd(start, count) == IF Truthy(count) THEN start + count[1] ELSE -1

HasNone(logs) == \E i \in 1..Len(logs) : logs[i] = NoLog

\* A fallback test that takes every answer but 'n' for a yes.
FallbackNotNo(answer) == answer # "n"

\* fallback_answer == 'y'
FallbackAccepted(answer) == answer = "y"

Answers == {"y", "n", "yes"}

RECURSIVE Flatten(_)
Flatten(ss) == IF ss = <<>> THEN <<>> ELSE Head(ss) \o Flatten(Tail(ss))

\* The results appended as the workers finish (imap_unordered).
PoolMapUnordered(res, order) == Flatten([k \in 1..Len(order) |-> res[order[k]][1]])

\* pool.map returns the results in the order of its inputs; the loop appends them.
PoolMapConcat(res, order) == Flatten([i \in 1..Len(res) |-> res[i][1]])

\* [d for d in all_data if d.which() not in ['can', 'sendcan']] when not can
IsCan(m) == m.which \in {"can", "sendcan"}
NotCan(m) == ~IsCan(m)
\* A filter that forgets 'sendcan'.
OnlyCan(m) == m.which # "can"
FilterCanOnly(data, can) == IF can THEN data ELSE SelectSeq(data, OnlyCan)

FilterCan(data, can) == IF can THEN data ELSE SelectSeq(data, NotCan)

\* The DBC names the carParams lookup can produce: None when the import or
\* the lookup fails, or when there is no carParams message.
DbcOutcomes(data) ==
  IF \E i \in 1..Len(data) : data[i].which = "carParams"
    THEN {None, Some("dbc")}
    ELSE {None}

\* The names NamedTemporaryFile(suffix='.rlog') can pick.
TempNames == {"tmpa.rlog", "tmpb.rlog"}

\* A start_juggler that drops the data file.
start_juggler_no_data(fn, dbc, layout) ==
  [extra_args |-> IF layout # None THEN << <<"-l", layout[1]>> >> ELSE <<>>,
   DBC_NAME |-> dbc]

\* A start_juggler that drops the layout.
start_juggler_no_layout(fn, dbc, layout) ==
  [extra_args |-> IF fn # None THEN << <<"-d", fn[1]>> >> ELSE <<>>,
   DBC_NAME |-> dbc]

\* start_juggler: the command line and environment PlotJuggler is called with.
start_juggler(fn, dbc, layout) ==
  [extra_args |-> (IF fn # None THEN << <<"-d", fn[1]>> >> ELSE <<>>)
                  \o (IF layout # None THEN << <<"-l", layout[1]>> >> ELSE <<>>),
   DBC_NAME |-> dbc]


-----------------------------------------------------------------------------
(* The parsed command line (argparse namespace); empty is len(sys.argv)==1 *)

NoArgs ==
  [empty |-> TRUE, demo |-> FALSE, qlog |-> FALSE, can |-> FALSE, stream |-> FALSE,
   layout |-> None, route_or_segment_name |-> None, segment_count |-> None]

ArgSets ==
  [empty : {FALSE}, demo : BOOLEAN, qlog : BOOLEAN, can : BOOLEAN, stream : BOOLEAN,
   layout : Opt({"layout.xml"}), route_or_segment_name : Opt(Names),
   segment_count : Opt(0..MaxCount)]

VARIABLES
  args,             \* the command line
  pc,               \* where the script is
  name,             \* route_or_segment_name of juggle_route
  segment_start, segment_end, segment_count,
  r,                \* the Route, None while unbound
  paths,            \* the list the route, the API or the argument gave (lines 64, 66, 73)
  qpaths,           \* the list r.qlog_paths() gave at the fallback (line 81)
  logs,
  prompts,          \* number of input() calls
  fallback_answer,
  results,          \* per task: None while running, Some(list) once load_segment returned
  outq,             \* the order the pool's tasks completed in
  all_data,
  loaded,           \* all_data as the loop of lines 88-89 left it, kept after line 106
  dbc,
  tempfile,
  saved,            \* what save_log wrote: file name and messages
  cmd,              \* what PlotJuggler was called with
  events,           \* save_log and start_juggler calls, in order
  helped,           \* print_help() was called
  exc               \* the exception that ended the script

vars == <<args, pc, name, segment_start, segment_end, segment_count, r, paths, qpaths,
          logs, prompts, fallback_answer, results, outq, all_data, loaded, dbc,
          tempfile, saved, cmd, events, helped, exc>>

Init ==
  /\ args \in {NoArgs} \cup ArgSets
  /\ pc = "main"
  /\ name = None
  /\ segment_start = 0
  /\ segment_end = 0
  /\ segment_count = None
  /\ r = None
  /\ paths = <<>>
  /\ qpaths = None
  /\ logs = <<>>
  /\ prompts = 0
  /\ fallback_answer = None
  /\ results = <<>>
  /\ outq = <<>>
  /\ all_data = <<>>
  /\ loaded = <<>>
  /\ dbc = None
  /\ tempfile = None
  /\ saved = None
  /\ cmd = None
  /\ events = <<>>
  /\ helped = FALSE
  /\ exc = None

Raise(e) == pc' = "raised" /\ exc' = Some(e)

\* __main__, lines 125-127
MainHelp ==
  /\ pc = "main"
  /\ args.empty
  /\ helped' = TRUE
  /\ pc' = "help_exit"
  /\ UNCHANGED <<args, name, segment_start, segment_end, segment_count, r, paths, qpaths,
                 logs, prompts, fallback_answer, results, outq, all_data, loaded, dbc, tempfile,
                 saved, cmd, events, exc>>

\* __main__, lines 130-131
MainStream ==
  /\ pc = "main"
  /\ ~args.empty
  /\ args.stream
  /\ cmd' = Some(start_juggler(None, None, args.layout))
  /\ events' = Append(events, "start_juggler")
  /\ pc' = "stream_exit"
  /\ UNCHANGED <<args, name, segment_start, segment_end, segment_count, r, paths, qpaths,
                 logs, prompts, fallback_answer, results, outq, all_data, loaded, dbc, tempfile,
                 saved, helped, exc>>

\* __main__, lines 133-134, up to the call of juggle_route
MainRoute ==
  /\ pc = "main"
  /\ ~args.empty
  /\ ~args.stream
  /\ IF args.demo
       THEN name' = Some(DEMO_ROUTE) /\ pc' = "juggle_route" /\ exc' = exc
       ELSE IF args.route_or_segment_name = None
         THEN name' = name /\ Raise("AttributeError")
         ELSE /\ name' = Some(strip(args.route_or_segment_name[1]))
              /\ pc' = "juggle_route"
              /\ exc' = exc
  /\ segment_count' = args.segment_count
  /\ UNCHANGED <<args, segment_start, segment_end, r, paths, qpaths,
                 logs, prompts, fallback_answer, results, outq, all_data, loaded, dbc, tempfile,
                 saved, cmd, events, helped>>

Pending(ls) == [i \in 1..Len(ls) |-> None]

\* juggle_route, lines 75-78: slice the list, then prompt or go on to the pool
Slice(start, count, plist) ==
  LET end == SegmentEnd(start, count)
      sel == PySlice(plist, start, end)
  IN /\ segment_start' = start
     /\ segment_count' = count
     /\ segment_end' = end
     /\ paths' = plist
     /\ logs' = sel
     /\ pc' = IF HasNone(sel) THEN "prompt" ELSE "pool"
     /\ results' = IF HasNone(sel) THEN <<>> ELSE Pending(sel)
     /\ exc' = exc

NoSlice ==
  UNCHANGED <<segment_start, segment_count, segment_end, paths, logs, results>>

\* juggle_route, lines 61-64 and 75-78
ResolveCabana ==
  /\ pc = "juggle_route"
  /\ HasCabana(name[1])
  /\ IF name[1].query
       THEN \E l \in PathLists("url") : Slice(0, segment_count, l)
       ELSE Raise("KeyError") /\ NoSlice
  /\ UNCHANGED <<args, name, r, qpaths, prompts, fallback_answer, outq, all_data, loaded, dbc,
                 tempfile, saved, cmd, events, helped>>

\* juggle_route, lines 65-66 and 75-78
ResolveDirect ==
  /\ pc = "juggle_route"
  /\ ~HasCabana(name[1])
  /\ IsUrlOrFile(name[1])
  /\ Slice(0, segment_count, <<ArgLog(name[1])>>)
  /\ UNCHANGED <<args, name, r, qpaths, prompts, fallback_answer, outq, all_data, loaded, dbc,
                 tempfile, saved, cmd, events, helped>>

\* juggle_route, lines 67-73 and 75-78
ResolveRoute ==
  /\ pc = "juggle_route"
  /\ ~HasCabana(name[1])
  /\ ~IsUrlOrFile(name[1])
  /\ LET p == get_route_and_segment_num(name[1])
         start == IF Truthy(p.segment_num) THEN p.segment_num[1] ELSE 0
         count == IF p.segment_num # None /\ segment_count = None
                    THEN Some(1) ELSE segment_count
     IN IF p.raised
          THEN Raise("Exception") /\ NoSlice /\ r' = r
          ELSE /\ r' = Some(p.route_name)
               /\ \E l \in PathLists(IF args.qlog THEN "qlog" ELSE "rlog") :
                     Slice(start, count, l)
  /\ UNCHANGED <<args, name, qpaths, prompts, fallback_answer, outq, all_data, loaded, dbc,
                 tempfile, saved, cmd, events, helped>>

\* juggle_route, lines 78-84
Prompt ==
  /\ pc = "prompt"
  /\ \E a \in Answers :
       /\ fallback_answer' = Some(a)
       /\ prompts' = prompts + 1
       /\ IF FallbackAccepted(a)
            THEN IF r = None
              THEN Raise("UnboundLocalError") /\ UNCHANGED <<qpaths, logs, results>>
              ELSE \E q \in PathLists("qlog") :
                     /\ Len(q) = Len(paths)
                     /\ qpaths' = Some(q)
                     /\ logs' = PySlice(q, segment_start, segment_end)
                     /\ results' = Pending(logs')
                     /\ pc' = "pool"
                     /\ exc' = exc
            ELSE pc' = "abort_return" /\ UNCHANGED <<qpaths, logs, results, exc>>
  /\ UNCHANGED <<args, name, segment_start, segment_end, segment_count, r, paths,
                 outq, all_data, loaded, dbc, tempfile, saved, cmd, events, helped>>

\* A pool worker runs load_segment on one entry of logs (lines 87-88, 30-39)
Worker(i) ==
  /\ pc = "pool"
  /\ i \in 1..Len(logs)
  /\ results[i] = None
  /\ \E read \in ReadOutcomes :
       results' = [results EXCEPT ![i] = Some(load_segment(logs[i], read))]
  /\ outq' = Append(outq, i)
  /\ UNCHANGED <<args, pc, name, segment_start, segment_end, segment_count, r, paths,
                 qpaths, logs, prompts, fallback_answer, all_data, loaded, dbc, tempfile,
                 saved, cmd, events, helped, exc>>

\* pool.map has every result: the loop of lines 88-89 builds all_data
Collect ==
  /\ pc = "pool"
  /\ \A i \in 1..Len(logs) : results[i] # None
  /\ all_data' = PoolMapConcat(results, outq)
  /\ loaded' = all_data'
  /\ pc' = "filter"
  /\ UNCHANGED <<args, name, segment_start, segment_end, segment_count, r, paths,
                 qpaths, logs, prompts, fallback_answer, results, outq, dbc, tempfile,
                 saved, cmd, events, helped, exc>>

\* juggle_route, lines 91-106
SaveLog ==
  /\ pc = "filter"
  /\ LET data == FilterCan(all_data, args.can)
     IN \E d \in DbcOutcomes(data), t \in TempNames :
          /\ dbc' = d
          /\ tempfile' = Some(t)
          /\ saved' = Some([fn |-> t, data |-> data])
  /\ all_data' = <<>>
  /\ loaded' = loaded
  /\ events' = Append(events, "save_log")
  /\ pc' = "launch"
  /\ UNCHANGED <<args, name, segment_start, segment_end, segment_count, r, paths,
                 qpaths, logs, prompts, fallback_answer, results, outq, cmd, helped, exc>>

\* juggle_route, line 108
Launch ==
  /\ pc = "launch"
  /\ cmd' = Some(start_juggler(tempfile, dbc, args.layout))
  /\ events' = Append(events, "start_juggler")
  /\ pc' = "return"
  /\ UNCHANGED <<args, name, segment_start, segment_end, segment_count, r, paths,
                 qpaths, logs, prompts, fallback_answer, results, outq, all_data, loaded, dbc,
                 tempfile, saved, helped, exc>>

Next ==
  \/ MainHelp
  \/ MainStream
  \/ MainRoute
  \/ ResolveCabana
  \/ ResolveDirect
  \/ ResolveRoute
  \/ Prompt
  \/ \E i \in 1..MaxLogs : Worker(i)
  \/ Collect
  \/ SaveLog
  \/ Launch

Spec == Init /\ [][Next]_vars

-----------------------------------------------------------------------------
(* Properties.                                                             *)

\* The script is inside juggle_route, or has left it.
InJuggleRoute == name # None
\* Lines 61-76 have run.
Resolved == pc \in {"prompt", "abort_return", "pool", "filter", "launch", "return"}
\* The pool has been started.
PoolStarted == pc \in {"pool", "filter", "launch", "return"}
\* The loop of lines 88-89 has ended.
Collected == pc \in {"filter", "launch", "return"}
\* logs as line 76 left it.
Sliced == PySlice(paths, segment_start, segment_end)
\* The pairs of extra_args with the given flag.
Flagged(c, flag) == {i \in 1..Len(c.extra_args) : c.extra_args[i][1] = flag}

\* C1: in a run of juggle_route, save_log writes the temporary file before
\* start_juggler is called, start_juggler is called at most once and with
\* '-d' naming that temporary file, and a run that reaches the end of
\* juggle_route (not stopped at the fallback prompt) has called it exactly once.
C1_SaveBeforeLaunch ==
  (~args.empty /\ ~args.stream) =>
    /\ events \in {<<>>, <<"save_log">>, <<"save_log", "start_juggler">>}
    /\ (cmd # None) = (events = <<"save_log", "start_juggler">>)
    /\ (saved # None) = (events # <<>>)
    /\ cmd # None =>
         /\ tempfile # None
         /\ saved[1].fn = tempfile[1]
         /\ Flagged(cmd[1], "-d") # {}
         /\ \A i \in Flagged(cmd[1], "-d") : cmd[1].extra_args[i][2] = tempfile[1]
    /\ pc = "return" => events = <<"save_log", "start_juggler">>
    /\ pc = "abort_return" => events = <<>>

C1_Witness ==
  /\ pc = "return"
  /\ events = <<"save_log", "start_juggler">>
  /\ Len(saved[1].data) > 0
  /\ cmd[1].extra_args[1] = <<"-d", tempfile[1]>>

\* C2: for an http(s) URL or an existing local file without 'cabana' in it,
\* and no segment_count, the logs handed to load_segment are the one-element
\* list holding that URL or path.
C2_DirectLogSelected ==
  ( /\ InJuggleRoute
    /\ ~HasCabana(name[1])
    /\ IsUrlOrFile(name[1])
    /\ args.segment_count = None
    /\ PoolStarted )
  => logs = <<ArgLog(name[1])>>

\* C3: for a route name without a segment number (the demo route included)
\* and no segment_count, the selected list is the whole list log_paths() or
\* qlog_paths() returned.
C3_WholeRouteSelected ==
  ( /\ InJuggleRoute
    /\ ~HasCabana(name[1])
    /\ ~IsUrlOrFile(name[1])
    /\ MatchesRoute(name[1])
    /\ args.segment_count = None
    /\ Resolved )
  => Sliced = paths

\* C4: for a segment name with number n over L logs the selection is the
\* log at index n when no segment_count is given (n < L), and the logs at
\* indices n .. min(n+c, L)-1 when segment_count c >= 0 is given; the same
\* with n = 0 for a route name given with a segment_count.
C4_SegmentRangeSelected ==
  ( /\ InJuggleRoute
    /\ ~HasCabana(name[1])
    /\ ~IsUrlOrFile(name[1])
    /\ MatchesSegment(name[1]) \/ (MatchesRoute(name[1]) /\ args.segment_count # None)
    /\ Resolved )
  => LET n == IF MatchesSegment(name[1]) THEN name[1].seg ELSE 0
         L == Len(paths)
     IN IF args.segment_count = None
          THEN n < L => Sliced = <<paths[n + 1]>>
          ELSE LET hi == Min(n + args.segment_count[1], L)
               IN Sliced = [k \in 1..(IF hi > n THEN hi - n ELSE 0) |-> paths[n + k]]

\* The position of message m in the list d.
Pos(d, m) == CHOOSE i \in 1..Len(d) : d[i] = m

\* C5: without --can the written list holds no 'can' or 'sendcan' message
\* and holds every other loaded message, in the loaded order; with --can
\* the written list is the loaded list.
C5_CanFiltered ==
  saved # None =>
    LET w == saved[1].data
    IN IF args.can
         THEN w = loaded
         ELSE /\ \A k \in 1..Len(w) : w[k].which \notin {"can", "sendcan"}
              /\ \A k \in 1..Len(w) : \E i \in 1..Len(loaded) : loaded[i] = w[k]
              /\ \A i \in 1..Len(loaded) :
                   loaded[i].which \notin {"can", "sendcan"} =>
                     \E k \in 1..Len(w) : w[k] = loaded[i]
              /\ \A k1, k2 \in 1..Len(w) :
                   k1 < k2 => Pos(loaded, w[k1]) < Pos(loaded, w[k2])

C5_Witness ==
  /\ saved # None
  /\ ~args.can
  /\ Len(saved[1].data) >= 2
  /\ \E i, j \in 1..Len(loaded) :
       i < j /\ loaded[i].which = "can" /\ loaded[j].which = "sendcan"

\* The index in logs of the segment message m was read from.
TaskOf(m) == CHOOSE i \in 1..Len(logs) : logs[i] = m.log

\* C6: whatever order the workers finish in, all_data holds every message
\* the workers returned exactly once, segment by segment in the order of
\* logs and in each segment's own order.
C6_PoolOrder ==
  Collected =>
    /\ \A i \in 1..Len(logs) : \A k \in 1..Len(results[i][1]) :
         \E p \in 1..Len(loaded) : loaded[p] = results[i][1][k]
    /\ \A p \in 1..Len(loaded) :
         \E i \in 1..Len(logs) : \E k \in 1..Len(results[i][1]) :
           loaded[p] = results[i][1][k]
    /\ \A p, q \in 1..Len(loaded) :
         p < q => \/ TaskOf(loaded[p]) < TaskOf(loaded[q])
                  \/ /\ TaskOf(loaded[p]) = TaskOf(loaded[q])
                     /\ loaded[p].n < loaded[q].n
    /\ pc = "filter" => all_data = loaded

C6_Witness ==
  /\ pc = "filter"
  /\ Len(logs) >= 2
  /\ outq[1] = 2
  /\ Len(results[1][1]) > 0
  /\ Len(results[2][1]) > 0
  /\ all_data = results[1][1] \o results[2][1]

\* C7: with --stream the visualizer is called with no '-d' and with
\* '-l <layout>' exactly when a layout is given, and no route is resolved,
\* no segment loaded and no file written; with no arguments help is shown
\* and the visualizer is not called.
C7_StreamAndHelp ==
  /\ (~args.empty /\ args.stream) =>
       /\ pc \in {"main", "stream_exit"}
       /\ name = None /\ r = None /\ paths = <<>> /\ qpaths = None /\ logs = <<>>
       /\ prompts = 0 /\ results = <<>> /\ outq = <<>> /\ loaded = <<>>
       /\ tempfile = None /\ saved = None /\ ~helped /\ exc = None
       /\ (pc = "main") = (cmd = None)
       /\ pc = "stream_exit" =>
            /\ events = <<"start_juggler">>
            /\ Flagged(cmd[1], "-d") = {}
            /\ cmd[1].extra_args =
                 IF args.layout = None THEN <<>> ELSE << <<"-l", args.layout[1]>> >>
  /\ args.empty =>
       /\ pc \in {"main", "help_exit"}
       /\ (pc = "help_exit") = helped
       /\ cmd = None /\ events = <<>> /\ name = None /\ saved = None /\ results = <<>>

C7_Witness ==
  /\ pc = "stream_exit"
  /\ args.layout # None
  /\ args.route_or_segment_name # None
  /\ args.segment_count # None
  /\ args.demo

\* C8: when the selected list has a None entry the user is asked once,
\* before anything is loaded, and on any answer but 'y' juggle_route
\* returns with nothing loaded, nothing written and no visualizer.
C8_PromptOnce ==
  /\ prompts \in {0, 1}
  /\ (prompts = 1) = (fallback_answer # None)
  /\ pc = "prompt" => prompts = 0 /\ HasNone(logs) /\ results = <<>> /\ outq = <<>>
  /\ (Resolved /\ pc # "prompt") => ((prompts = 1) = HasNone(Sliced))
  /\ (exc # None /\ exc[1] = "UnboundLocalError") => prompts = 1 /\ HasNone(Sliced)
  /\ (fallback_answer # None /\ fallback_answer[1] # "y") =>
       /\ pc = "abort_return"
       /\ results = <<>> /\ outq = <<>> /\ all_data = <<>> /\ loaded = <<>>
       /\ tempfile = None /\ saved = None /\ cmd = None /\ events = <<>>

C8_Witness ==
  /\ pc = "abort_return"
  /\ fallback_answer = Some("yes")
  /\ HasNone(logs)

\* C9: whenever the prompt is answered 'y', for a route name, a segment
\* name or a cabana URL, logs becomes the qlog paths of the route sliced
\* with the same range and the run goes on; it never fails for lack of a route.
C9_FallbackToQlogs ==
  (fallback_answer # None /\ fallback_answer[1] = "y") =>
    /\ exc = None
    /\ PoolStarted
    /\ qpaths # None
    /\ logs = PySlice(qpaths[1], segment_start, segment_end)

=============================================================================
